---- MODULE Spec2Model ----
(***************************************************************************)
(* Model of download_transcripts.py: the transcript client's retry loop    *)
(* (TranscriptDownloader.fetch_transcript), the identifier extractor, the  *)
(* renderer / writer (save_transcript) and the batch orchestrator (main).  *)
(*                                                                         *)
(* Text is a sequence of one-character strings.  A JSON value is a record  *)
(* tagged by its field t; every tag has its own payload field.             *)
(***************************************************************************)
EXTENDS Integers, Sequences, FiniteSets, TLC

VARIABLES
  \* ---- one call of fetch_transcript ----
  video_url,     \* the reference handed to fetch_transcript
  max_retries,   \* the attempt budget of the call
  attempt,       \* loop variable of `for attempt in range(max_retries)`
  fpc,           \* position in fetch_transcript
  resp,          \* the response (or transport failure) of the last GET
  wait_time,     \* duration handed to the pending time.sleep
  log,           \* history of the call: one entry per GET and per sleep
  result,        \* value returned by the call
  console,       \* last error message _handle_error printed in the call
  \* ---- main ----
  pc,            \* position in main
  api_key,       \* TRANSCRIPT_API_KEY in the environment
  list_txt,      \* the input file list.txt
  urls,          \* result of read_urls_from_file
  idx,           \* 1-based index of the reference being processed
  successes,
  failures,
  output_dir,    \* TRUE once the output directory exists
  files,         \* the output directory: filename stem -> content
  pauses,        \* number of inter-reference pauses taken
  exit_status,   \* process exit status; -1 while running
  processed,     \* history of main: one entry per reference handed to
                 \* fetch_transcript, with how it was tallied
  \* ---- a single call of one of the pure methods ----
  unit           \* the method called, its argument and its return value

fetchVars == <<video_url, max_retries, attempt, fpc, resp, wait_time, log, result,
               console>>
mainVars  == <<pc, api_key, list_txt, urls, idx, successes, failures,
               output_dir, files, pauses, exit_status, processed, unit>>
vars      == <<video_url, max_retries, attempt, fpc, resp, wait_time, log, result,
               console,
               pc, api_key, list_txt, urls, idx, successes, failures,
               output_dir, files, pauses, exit_status, processed, unit>>

----------------------------------------------------------------------------
(* Bounds *)

MaxRetries == 3          \* largest max_retries tried on a single call
MaxLines   == 2          \* longest list.txt
MaxSegments == 3         \* longest transcript rendered on its own

(* Program constants *)

DefaultMaxRetries == 3   \* fetch_transcript(max_retries: int = 3)
IdLen             == 11  \* {11} in the identifier patterns
MaxFilenameLen    == 200 \* _clean_filename length cap

----------------------------------------------------------------------------
(* Characters and text *)

Digits == <<"0", "1", "2", "3", "4", "5", "6", "7", "8", "9">>

DigitSet == {Digits[i] : i \in 1..10}

LetterSet ==
  {"a","b","c","d","e","f","g","h","i","j","k","l","m",
   "n","o","p","q","r","s","t","u","v","w","x","y","z",
   "A","B","C","D","E","F","G","H","I","J","K","L","M",
   "N","O","P","Q","R","S","T","U","V","W","X","Y","Z"}

\* the class [a-zA-Z0-9_-] of the identifier patterns
IdAlphabet == LetterSet \cup DigitSet \cup {"_", "-"}

\* what str.strip() and int() treat as whitespace
Whitespace == {" ", "\t", "\n", "\r", "\f"}

DigitVal(c) == CHOOSE i \in 0..9 : Digits[i + 1] = c

RECURSIVE LStrip(_)
LStrip(s) ==
  IF s # <<>> /\ Head(s) \in Whitespace THEN LStrip(Tail(s)) ELSE s

RECURSIVE RStrip(_)
RStrip(s) ==
  IF s # <<>> /\ s[Len(s)] \in Whitespace
  THEN RStrip(SubSeq(s, 1, Len(s) - 1)) ELSE s

\* str.strip()
Strip(s) == LStrip(RStrip(s))

\* s[i:] starts with the literal p
StartsAt(s, i, p) ==
  /\ i + Len(p) - 1 <= Len(s)
  /\ \A k \in 1..Len(p) : s[i + k - 1] = p[k]

RECURSIVE Pow2(_)
\* 2 ** n
Pow2(n) == IF n <= 0 THEN 1 ELSE 2 * Pow2(n - 1)

----------------------------------------------------------------------------
(* JSON values and HTTP header values *)

JAbsent    == [t |-> "absent"]                 \* key / header not present
JNull      == [t |-> "null"]
JStr(s)    == [t |-> "str", s |-> s]
JNum(h)    == [t |-> "num", h |-> h]           \* a number, in hundredths
JList(l)   == [t |-> "list", l |-> l]
JInvalid   == [t |-> "invalid"]                \* a body that is not JSON

\* int(x) of Python for a str argument: surrounding whitespace is dropped,
\* one sign is allowed, then decimal digits with single underscores between
\* digits.  ok = FALSE stands for ValueError.
RECURSIVE DigitsValue(_, _)
DigitsValue(s, acc) ==
  IF s = <<>> THEN acc
  ELSE IF Head(s) = "_" THEN DigitsValue(Tail(s), acc)
  ELSE DigitsValue(Tail(s), 10 * acc + DigitVal(Head(s)))

IsIntLiteral(s) ==
  /\ s # <<>>
  /\ \A i \in 1..Len(s) : s[i] \in DigitSet \cup {"_"}
  /\ s[1] # "_" /\ s[Len(s)] # "_"
  /\ \A i \in 1..(Len(s) - 1) : ~(s[i] = "_" /\ s[i + 1] = "_")

PyInt(str) ==
  LET s    == Strip(str)
      sgn  == IF s # <<>> /\ Head(s) = "-" THEN -1 ELSE 1
      body == IF s # <<>> /\ Head(s) \in {"-", "+"} THEN Tail(s) ELSE s
  IN IF IsIntLiteral(body)
     THEN [ok |-> TRUE,  v |-> sgn * DigitsValue(body, 0)]
     ELSE [ok |-> FALSE, v |-> 0]

----------------------------------------------------------------------------
(* Identifier extractor *)

\* the 11 characters s[i .. i+10] exist and all lie in [0-9A-Za-z_-]
IdRunAt(s, i) ==
  /\ i >= 1
  /\ i + IdLen - 1 <= Len(s)
  /\ \A k \in i..(i + IdLen - 1) : s[k] \in IdAlphabet

\* re.match(r'^[a-zA-Z0-9_-]{11}$', url); `$` also matches just before a
\* newline that ends the string
MatchesBareId(url) ==
  /\ IdRunAt(url, 1)
  /\ \/ Len(url) = IdLen
     \/ Len(url) = IdLen + 1 /\ url[Len(url)] = "\n"

\* start positions of the capture group of r'(?:v=|\/)([0-9A-Za-z_-]{11})'
StandardCaptures(url) ==
  {i \in 1..Len(url) :
     \/ i >= 3 /\ StartsAt(url, i - 2, <<"v", "=">>) /\ IdRunAt(url, i)
     \/ i >= 2 /\ StartsAt(url, i - 1, <<"/">>) /\ IdRunAt(url, i)}

\* start positions of the capture group of r'youtu\.be\/([0-9A-Za-z_-]{11})'
ShortCaptures(url) ==
  {i \in 1..Len(url) :
     /\ i >= 10
     /\ StartsAt(url, i - 9, <<"y", "o", "u", "t", "u", ".", "b", "e", "/">>)
     /\ IdRunAt(url, i)}

\* re.search returns the match that starts leftmost; group(1) is the capture.
\* (A match through "v=" starts two characters before its capture, one
\* through "/" one character before: the leftmost match is the one whose
\* prefix starts first.)
MatchStart(url, i) ==
  IF i >= 3 /\ StartsAt(url, i - 2, <<"v", "=">>) THEN i - 2 ELSE i - 1

\* group(1) of the leftmost match of the standard pattern
StandardCapture(url) ==
  LET caps  == StandardCaptures(url)
      first == CHOOSE i \in caps :
                 \A j \in caps : MatchStart(url, i) <= MatchStart(url, j)
  IN  SubSeq(url, first, first + IdLen - 1)

\* group(1) of the leftmost match of the short-link pattern
ShortCapture(url) ==
  LET caps  == ShortCaptures(url)
      first == CHOOSE i \in caps : \A j \in caps : i <= j
  IN  SubSeq(url, first, first + IdLen - 1)

extract_video_id(url) ==
  IF MatchesBareId(url) THEN JStr(url)
  ELSE IF StandardCaptures(url) # {} THEN JStr(StandardCapture(url))
  ELSE IF ShortCaptures(url) # {} THEN JStr(ShortCapture(url))
  ELSE JNull

----------------------------------------------------------------------------
(* What the environment can answer *)

\* values of the Retry-After header of a 429 response: none, a number of
\* seconds, a negative number, an HTTP-date
RetryAfterValues ==
  { JAbsent,
    JStr(<<"5">>),
    JStr(<<"-", "1">>),
    JStr(<<"W", "e", "d", ",", " ", "2", "1", " ", "O", "c", "t">>) }

\* HTTP statuses other than 200 and 429
OtherStatuses == {400, 401, 402, 404, 422, 500, 503}

NoResponse == [status |-> 0, retry_after |-> JAbsent, body |-> JAbsent]

\* requests.exceptions.RequestException raised by session.get
TransportFailure == [status |-> -1, retry_after |-> JAbsent, body |-> JAbsent]

None == JNull

\* entries of log
LogGets == {"200", "429", "other", "exc"}

Requests(l) == Cardinality({i \in 1..Len(l) : l[i] \in LogGets})

Sleeps(l) == Cardinality({i \in 1..Len(l) : l[i] = "sleep"})

Terminal == {"returned", "raised"}

----------------------------------------------------------------------------
(* Parsed response bodies *)

JDict(transcript, language, metadata) ==
  [t |-> "dict", transcript |-> transcript, language |-> language,
   metadata |-> metadata]

JMeta(title, author_name, author_url) ==
  [t |-> "meta", title |-> title, author_name |-> author_name,
   author_url |-> author_url]

JSeg(text, start) == [t |-> "seg", text |-> text, start |-> start]

\* bool(v) of Python
Truthy(v) ==
  CASE v.t = "str"  -> v.s # <<>>
    [] v.t = "num"  -> v.h # 0
    [] v.t = "list" -> v.l # <<>>
    [] v.t = "dict" -> \/ v.transcript.t # "absent"
                       \/ v.language.t # "absent"
                       \/ v.metadata.t # "absent"
    [] v.t = "meta" -> \/ v.title.t # "absent"
                       \/ v.author_name.t # "absent"
                       \/ v.author_url.t # "absent"
    [] v.t = "seg"  -> v.text.t # "absent" \/ v.start.t # "absent"
    [] OTHER        -> FALSE

\* str(v) as an f-string shows it, for text and None
Display(v) == IF v.t = "str" THEN v.s ELSE <<"N", "o", "n", "e">>

----------------------------------------------------------------------------
(* Filename sanitizer *)

YouTubeSuffix == <<" ", "-", " ", "Y", "o", "u", "T", "u", "b", "e">>

\* the class [\\/*?:"<>|]
ReservedChars == {"\\", "/", "*", "?", ":", "\"", "<", ">", "|"}

\* the positions of s where the literal old occurs
Occurrences(s, old) == {i \in 1..Len(s) : StartsAt(s, i, old)}

RECURSIVE RemoveAll(_, _)
\* s.replace(old, ""): scanning from the left, every occurrence of old that
\* does not overlap an earlier removed one is dropped
RemoveAll(s, old) ==
  IF Occurrences(s, old) = {} THEN s
  ELSE LET first == CHOOSE i \in Occurrences(s, old) :
                      \A j \in Occurrences(s, old) : i <= j
       IN  SubSeq(s, 1, first - 1)
             \o RemoveAll(SubSeq(s, first + Len(old), Len(s)), old)

NotReserved(c) == c \notin ReservedChars

CleanFilenameUncapped(title) ==
  Strip(SelectSeq(Strip(RemoveAll(title, YouTubeSuffix)), NotReserved))

_clean_filename(title) ==
  LET unsuffixed == Strip(RemoveAll(title, YouTubeSuffix))
      cleaned    == SelectSeq(unsuffixed, NotReserved)
      limited    == IF Len(cleaned) > MaxFilenameLen
                    THEN SubSeq(cleaned, 1, MaxFilenameLen) ELSE cleaned
  IN  Strip(limited)

----------------------------------------------------------------------------
(* Document renderer *)

RECURSIVE NatText(_)
\* decimal digits of a natural number
NatText(n) ==
  IF n < 10 THEN <<Digits[n + 1]>>
  ELSE NatText(n \div 10) \o <<Digits[(n % 10) + 1]>>

\* f"{x:.2f}" of a non-negative number given in hundredths
Format2f(h) ==
  NatText(h \div 100) \o <<".", Digits[((h \div 10) % 10) + 1], Digits[(h % 10) + 1]>>

\* one iteration of the segment loop: ok = FALSE stands for the exception
\* the f-string (start not a number) raises
SegmentLine(segment) ==
  IF segment.t = "seg"
  THEN LET text  == IF segment.text.t = "absent" THEN JStr(<<>>) ELSE segment.text
           start == IF segment.start.t = "absent" THEN JNum(0) ELSE segment.start
       IN  IF start.t # "null"
           THEN IF start.t = "num"
                THEN [ok |-> TRUE, isStr |-> TRUE,
                      line |-> <<"[">> \o Format2f(start.h) \o <<"s", "]", " ">>
                               \o Display(text)]
                ELSE [ok |-> FALSE, isStr |-> TRUE, line |-> <<>>]
           ELSE [ok |-> TRUE, isStr |-> text.t = "str", line |-> Display(text)]
  ELSE [ok |-> TRUE, isStr |-> TRUE, line |-> Display(segment)]

RECURSIVE JoinLines(_)
\* "\n".join(lines)
JoinLines(lines) ==
  IF lines = <<>> THEN <<>>
  ELSE IF Len(lines) = 1 THEN lines[1]
  ELSE lines[1] \o <<"\n">> \o JoinLines(Tail(lines))

\* ok = FALSE: an exception leaves the function (bad start in a segment, or
\* "\n".join over a line that is not a str)
format_transcript_text(transcript_data) ==
  LET transcript == IF transcript_data.transcript.t = "absent"
                    THEN JList(<<>>) ELSE transcript_data.transcript
  IN  IF ~Truthy(transcript) THEN [ok |-> TRUE, text |-> <<>>]
      ELSE IF transcript.t = "list"
      THEN LET rendered == [i \in 1..Len(transcript.l) |-> SegmentLine(transcript.l[i])]
           IN  IF \A i \in 1..Len(rendered) : rendered[i].ok /\ rendered[i].isStr
               THEN [ok |-> TRUE,
                     text |-> JoinLines([i \in 1..Len(rendered) |-> rendered[i].line])]
               ELSE [ok |-> FALSE, text |-> <<>>]
      ELSE [ok |-> TRUE, text |-> Display(transcript)]

Unknown == <<"u", "n", "k", "n", "o", "w", "n">>

\* os.path.join(output_dir, f"{filename}.md"), relative to output_dir
filepath(filename) == filename \o <<".", "m", "d">>

FallbackNeededEmptyOnly(filename) == filename = <<>>

\* `not filename or filename == "unknown"`
FallbackNeeded(filename) == filename = <<>> \/ filename = Unknown

\* the literal of f"transcript_{video_id}"
TranscriptPrefix == <<"t", "r", "a", "n", "s", "c", "r", "i", "p", "t", "_">>

\* save_transcript up to the write: raised = TRUE when an exception leaves
\* the method before the try block (AttributeError on a body, a metadata or
\* a title that is not of the expected type, or the renderer's exception)
save_transcript(url, transcript_data) ==
  LET extracted == extract_video_id(url)
      video_id  == IF extracted.t = "str" /\ extracted.s # <<>>
                   THEN extracted.s ELSE Unknown
      Failed    == [raised |-> TRUE, filename |-> <<>>, content |-> <<>>]
  IN  IF transcript_data.t # "dict" THEN Failed
      ELSE
      LET metadata == IF transcript_data.metadata.t = "absent"
                      THEN JMeta(JAbsent, JAbsent, JAbsent)
                      ELSE transcript_data.metadata
      IN  IF metadata.t # "meta" THEN Failed
          ELSE
          LET title == IF metadata.title.t = "absent"
                       THEN JStr(<<"T","r","a","n","s","c","r","i","p","t"," ">> \o video_id)
                       ELSE metadata.title
          IN  IF title.t # "str" THEN Failed
              ELSE
              LET cleaned  == _clean_filename(title.s)
                  filename == IF FallbackNeeded(cleaned)
                              THEN TranscriptPrefix \o video_id
                              ELSE cleaned
                  language == IF transcript_data.language.t = "absent"
                              THEN JStr(Unknown) ELSE transcript_data.language
                  rendered == format_transcript_text(transcript_data)
                  author   == IF Truthy(metadata) /\ metadata.author_name.t # "absent"
                                 /\ Truthy(metadata.author_name)
                              THEN <<"\n\n**Canal:** ">> \o Display(metadata.author_name)
                                   \o (IF metadata.author_url.t # "absent"
                                          /\ Truthy(metadata.author_url)
                                       THEN <<" (">> \o Display(metadata.author_url) \o <<")">>
                                       ELSE <<>>)
                              ELSE <<>>
              IN  IF ~rendered.ok THEN Failed
                  ELSE [raised   |-> FALSE,
                        filename |-> filename,
                        content  |-> <<"# ">> \o title.s
                                     \o <<"\n\n**Link Original:** ">> \o url
                                     \o <<"\n**Video ID:** ">> \o video_id
                                     \o <<"\n**Idioma detectado:** ">> \o Display(language)
                                     \o <<"\n\n---\n\n## Transcrição\n\n">> \o rendered.text
                                     \o <<"\n">> \o author]

----------------------------------------------------------------------------
(* Inputs: references, lines of list.txt, bodies of 200 responses *)

ShortUrl ==
  <<"h","t","t","p","s",":","/","/","y","o","u","t","u",".","b","e","/",
    "d","Q","w","4","w","9","W","g","X","c","Q">>

\* a reference no identifier can be extracted from
NoIdRef == <<"n","o","t"," ","a"," ","u","r","l">>

Refs == {ShortUrl, NoIdRef}

\* lines of list.txt as the file iterator yields them
Lines == {<<"\n">>, <<"#", "x", "\n">>, ShortUrl \o <<"\n">>, NoIdRef \o <<"\n">>}

TestTitle == <<"T", "e", "s", "t">>

Hello == JSeg(JStr(<<"H", "i">>), JNum(50))

World == JSeg(JStr(<<"Y", "o">>), JNull)

BodyOk ==
  JDict(JList(<<Hello, World>>), JStr(<<"e", "n">>),
        JMeta(JStr(TestTitle), JStr(<<"A">>), JAbsent))

BodyNoMetadata == JDict(JList(<<Hello>>), JAbsent, JAbsent)

BodyNullMetadata == JDict(JList(<<Hello>>), JAbsent, JNull)

BodyNullTitle == JDict(JList(<<Hello>>), JAbsent, JMeta(JNull, JAbsent, JAbsent))

BodyTextStart ==
  JDict(JList(<<JSeg(JStr(<<"H", "i">>), JStr(<<"0", ".", "5">>))>>), JAbsent,
        JMeta(JStr(TestTitle), JAbsent, JAbsent))

BodyEmptyDict == JDict(JAbsent, JAbsent, JAbsent)

BodyList == JList(<<Hello>>)

\* what a 200 response can carry
Bodies ==
  { BodyOk, BodyNoMetadata, BodyNullMetadata, BodyNullTitle, BodyTextStart,
    BodyEmptyDict, BodyList, JInvalid }

----------------------------------------------------------------------------
(* TranscriptDownloader._handle_error: the message printed for a status *)

_handle_error(status) ==
  CASE status = 400 -> "Bad Request"
    [] status = 401 -> "Unauthorized"
    [] status = 402 -> "Payment Required"
    [] status = 404 -> "Not Found"
    [] status = 422 -> "Validation Error"
    [] status = 429 -> "Too Many Requests"
    [] status = 500 -> "Server Error"
    [] OTHER        -> "Error"

----------------------------------------------------------------------------
(* TranscriptDownloader.fetch_transcript *)

\* value of unit while no pure method is being called on its own
NoCall == [fn |-> "none", done |-> FALSE]

\* `return v`
Return(v) ==
  /\ fpc' = "returned"
  /\ result' = v
  /\ wait_time' = 0

\* an exception that no handler of fetch_transcript catches
Raise(name) ==
  /\ fpc' = "raised"
  /\ result' = [t |-> "exception", name |-> name]
  /\ wait_time' = 0

\* a mutation of LoopContinues: one attempt more than the budget
LoopContinuesInclusive(a) == a <= max_retries

\* `for attempt in range(max_retries)`: the body runs for a = 0 .. max_retries - 1
LoopContinues(a) == a < max_retries

\* entry: the body of the loop runs only when range(max_retries) is not empty
FetchCall ==
  /\ fpc = "call"
  /\ attempt' = 0
  /\ log' = <<>>
  /\ resp' = NoResponse
  /\ console' = ""
  /\ IF LoopContinues(0)
     THEN fpc' = "get" /\ UNCHANGED <<result, wait_time>>
     ELSE Return(None)
  /\ UNCHANGED <<video_url, max_retries>>
  /\ UNCHANGED mainVars

\* a mutation of Backoff: the exponent counts attempts from 1
BackoffOneBased ==
  IF attempt < max_retries - 1
  THEN /\ wait_time' = Pow2(attempt + 1)
       /\ fpc' = "sleep"
       /\ UNCHANGED result
  ELSE Return(None)

\* the except branch: back off and retry, or give up on the last attempt
Backoff ==
  IF attempt < max_retries - 1
  THEN /\ wait_time' = Pow2(attempt)
       /\ fpc' = "sleep"
       /\ UNCHANGED result
  ELSE Return(None)

\* session.get answers 429
Get429 ==
  /\ fpc = "get"
  /\ \E h \in RetryAfterValues :
       LET retry_after == IF h.t = "absent"
                          THEN [ok |-> TRUE, v |-> Pow2(attempt)]
                          ELSE PyInt(h.s)
       IN  /\ resp' = [status |-> 429, retry_after |-> h, body |-> JAbsent]
           /\ IF retry_after.ok
              THEN /\ wait_time' = retry_after.v
                   /\ fpc' = "sleep"
                   /\ UNCHANGED result
              ELSE Raise("ValueError")
  /\ log' = Append(log, "429")
  /\ UNCHANGED <<video_url, max_retries, attempt, console>>
  /\ UNCHANGED mainVars

\* session.get answers 200; response.json() either parses the body or raises
\* JSONDecodeError, which is a RequestException (handled by the except
\* branch) from requests 2.27 on and a plain ValueError before
Get200 ==
  /\ fpc = "get"
  /\ \E b \in Bodies :
       /\ resp' = [status |-> 200, retry_after |-> JAbsent, body |-> b]
       /\ IF b.t # "invalid"
          THEN Return(b)
          ELSE \/ Backoff
               \/ Raise("JSONDecodeError")
  /\ log' = Append(log, "200")
  /\ UNCHANGED <<video_url, max_retries, attempt, console>>
  /\ UNCHANGED mainVars

\* a mutation of HandleOther: server errors are retried with backoff
HandleOtherRetryServerError(status) ==
  /\ console' = _handle_error(status)
  /\ IF status >= 500 THEN Backoff ELSE Return(None)

\* `self._handle_error(response, video_url); return None`
HandleOther(status) ==
  /\ console' = _handle_error(status)
  /\ Return(None)

\* session.get answers any other status
GetOther ==
  /\ fpc = "get"
  /\ \E s \in OtherStatuses :
       /\ resp' = [status |-> s, retry_after |-> JAbsent, body |-> JAbsent]
       /\ HandleOther(s)
  /\ log' = Append(log, "other")
  /\ UNCHANGED <<video_url, max_retries, attempt>>
  /\ UNCHANGED mainVars

\* session.get raises a RequestException (connection error, timeout)
GetTransport ==
  /\ fpc = "get"
  /\ resp' = TransportFailure
  /\ Backoff
  /\ log' = Append(log, "exc")
  /\ UNCHANGED <<video_url, max_retries, attempt, console>>
  /\ UNCHANGED mainVars

\* after the sleep the loop goes to its next iteration, or falls out of the
\* loop to the final `return None`
NextIteration ==
  /\ attempt' = attempt + 1
  /\ IF LoopContinues(attempt + 1)
     THEN fpc' = "get" /\ wait_time' = 0 /\ UNCHANGED result
     ELSE Return(None)

\* time.sleep(d): raises ValueError for a negative d
Sleep ==
  /\ fpc = "sleep"
  /\ IF wait_time < 0
     THEN Raise("ValueError") /\ UNCHANGED <<attempt, log>>
     ELSE log' = Append(log, "sleep") /\ NextIteration
  /\ UNCHANGED <<video_url, max_retries, resp, console>>
  /\ UNCHANGED mainVars

NextFetch == FetchCall \/ Get429 \/ Get200 \/ GetOther \/ GetTransport \/ Sleep

\* a single call fetch_transcript(video_url, max_retries = n), any n
InitFetch ==
  /\ video_url \in Refs
  /\ max_retries \in 0..MaxRetries
  /\ attempt = 0
  /\ fpc = "call"
  /\ resp = NoResponse
  /\ wait_time = 0
  /\ log = <<>>
  /\ result = None
  /\ console = ""
  /\ pc = "caller"
  /\ api_key = "key"
  /\ list_txt = [state |-> "ok", lines |-> <<>>]
  /\ urls = <<>>
  /\ idx = 0
  /\ successes = 0
  /\ failures = 0
  /\ output_dir = FALSE
  /\ files = <<>>
  /\ pauses = 0
  /\ exit_status = -1
  /\ processed = <<>>
  /\ unit = NoCall

SpecFetch == InitFetch /\ [][NextFetch]_vars

\* the call runs to its end: nothing suspends it but its own sleeps
FairSpecFetch == SpecFetch /\ WF_vars(NextFetch)

----------------------------------------------------------------------------
(* read_urls_from_file *)

StartsWithHash(url) == url # <<>> /\ Head(url) = "#"

RECURSIVE KeepUrls(_)
\* the loop over the lines: strip, skip empty lines and comments
KeepUrls(lines) ==
  IF lines = <<>> THEN <<>>
  ELSE LET url == Strip(Head(lines))
       IN  IF url # <<>> /\ ~StartsWithHash(url)
           THEN <<url>> \o KeepUrls(Tail(lines))
           ELSE KeepUrls(Tail(lines))

\* a mutation of read_urls_from_file: a read error returns the lines read
\* before it
ReadUrlsKeepsPartial(file) ==
  IF file.state \in {"ok", "unreadable"} THEN KeepUrls(file.lines) ELSE <<>>

\* both except branches return the empty list
read_urls_from_file(file) ==
  IF file.state = "ok" THEN KeepUrls(file.lines) ELSE <<>>

----------------------------------------------------------------------------
(* main *)

RECURSIVE SeqsUpTo(_, _)
\* the sequences over S of length at most n
SeqsUpTo(S, n) ==
  IF n = 0 THEN {<<>>}
  ELSE LET shorter == SeqsUpTo(S, n - 1)
       IN  shorter \cup {Append(q, x) : q \in shorter, x \in S}

InputFiles ==
  {[state |-> "missing", lines |-> <<>>]}
    \cup {[state |-> st, lines |-> l] :
            st \in {"ok", "unreadable"}, l \in SeqsUpTo(Lines, MaxLines)}

FetchIdle ==
  /\ video_url = <<>>
  /\ max_retries = DefaultMaxRetries
  /\ attempt = 0
  /\ fpc = "idle"
  /\ resp = NoResponse
  /\ wait_time = 0
  /\ log = <<>>
  /\ result = None
  /\ console = ""

\* fetch_transcript has returned to main: its locals are gone
FetchLeave ==
  /\ video_url' = <<>>
  /\ max_retries' = DefaultMaxRetries
  /\ attempt' = 0
  /\ fpc' = "idle"
  /\ resp' = NoResponse
  /\ wait_time' = 0
  /\ log' = <<>>
  /\ result' = None
  /\ console' = ""

Init ==
  /\ FetchIdle
  /\ pc = "start"
  /\ api_key \in {"", "key"}
  /\ list_txt \in InputFiles
  /\ urls = <<>>
  /\ idx = 0
  /\ successes = 0
  /\ failures = 0
  /\ output_dir = FALSE
  /\ files = <<>>
  /\ pauses = 0
  /\ exit_status = -1
  /\ processed = <<>>
  /\ unit = NoCall

\* sys.exit(1)
Abort ==
  /\ pc' = "aborted"
  /\ exit_status' = 1

\* the credential check, the constructor and the reading of list.txt
MainPreflight ==
  /\ pc = "start"
  /\ IF api_key = ""
     THEN Abort /\ UNCHANGED urls
     ELSE /\ urls' = read_urls_from_file(list_txt)
          /\ IF urls' = <<>>
             THEN Abort
             ELSE pc' = "mkdir" /\ UNCHANGED exit_status
  /\ UNCHANGED <<api_key, list_txt, idx, successes, failures, output_dir,
                 files, pauses, processed, unit>>
  /\ UNCHANGED fetchVars

\* os.makedirs(output_dir, exist_ok=True) and the counters; an OSError of
\* makedirs is not caught
MainMakeOutputDir ==
  /\ pc = "mkdir"
  /\ \E created \in BOOLEAN :
       IF created
       THEN /\ output_dir' = TRUE
            /\ idx' = 1
            /\ pc' = "loop"
            /\ UNCHANGED exit_status
       ELSE /\ pc' = "crashed"
            /\ exit_status' = 1
            /\ UNCHANGED <<output_dir, idx>>
  /\ successes' = 0
  /\ failures' = 0
  /\ UNCHANGED <<api_key, list_txt, urls, files, pauses, processed, unit>>
  /\ UNCHANGED fetchVars

\* entry of processed for a reference whose fetch has begun
Started(url) ==
  [url |-> url, retrieved |-> FALSE, written |-> FALSE, counted |-> "pending"]

\* the entry of the current reference once the loop body has tallied it
Tallied(retrieved, written, counted) ==
  [processed EXCEPT ![idx] =
     [url |-> @.url, retrieved |-> retrieved, written |-> written,
      counted |-> counted]]

\* downloader.fetch_transcript(video_url=url, ...): max_retries keeps its default
MainFetch ==
  /\ pc = "loop"
  /\ pc' = "fetching"
  /\ video_url' = urls[idx]
  /\ max_retries' = DefaultMaxRetries
  /\ fpc' = "call"
  /\ processed' = Append(processed, Started(urls[idx]))
  /\ UNCHANGED <<attempt, resp, wait_time, log, result, console>>
  /\ UNCHANGED <<api_key, list_txt, urls, idx, successes, failures, output_dir,
                 files, pauses, exit_status, unit>>

\* the try block of save_transcript: the open fails, or the write fails
\* after the open has created (or truncated) the file, or both succeed
WriteOutcomes == {"written", "open failed", "write failed"}

WriteFile(doc, outcome) ==
  CASE outcome = "written"      -> (filepath(doc.filename) :> doc.content) @@ files
    [] outcome = "write failed" -> (filepath(doc.filename) :> <<>>) @@ files
    [] OTHER                    -> files

AfterReferencePauseAfterLast ==
  pc' = IF idx <= Len(urls) THEN "pause" ELSE "summary"

\* the end of the loop body: on to the pause, or out of the loop
AfterReference ==
  pc' = IF idx < Len(urls) THEN "pause" ELSE "summary"

\* the caller's work once fetch_transcript has returned: `if transcript_data`,
\* save_transcript and the tally
MainTally ==
  /\ pc = "fetching"
  /\ fpc = "returned"
  /\ IF Truthy(result)
     THEN LET doc == save_transcript(urls[idx], result)
          IN  IF doc.raised
              THEN /\ pc' = "crashed"
                   /\ exit_status' = 1
                   /\ UNCHANGED <<files, successes, failures, processed>>
              ELSE \E outcome \in WriteOutcomes :
                     /\ files' = WriteFile(doc, outcome)
                     /\ IF outcome = "written"
                        THEN /\ successes' = successes + 1
                             /\ processed' = Tallied(TRUE, TRUE, "success")
                             /\ UNCHANGED failures
                        ELSE /\ failures' = failures + 1
                             /\ processed' = Tallied(TRUE, FALSE, "failure")
                             /\ UNCHANGED successes
                     /\ AfterReference
                     /\ UNCHANGED exit_status
     ELSE /\ failures' = failures + 1
          /\ processed' = Tallied(result.t # "null", FALSE, "failure")
          /\ AfterReference
          /\ UNCHANGED <<files, successes, exit_status>>
  /\ FetchLeave
  /\ UNCHANGED <<api_key, list_txt, urls, idx, output_dir, pauses, unit>>

\* an exception leaves fetch_transcript: nothing in main catches it
MainUncaught ==
  /\ pc = "fetching"
  /\ fpc = "raised"
  /\ pc' = "crashed"
  /\ exit_status' = 1
  /\ FetchLeave
  /\ UNCHANGED <<api_key, list_txt, urls, idx, successes, failures, output_dir,
                 files, pauses, processed, unit>>

\* time.sleep(0.5) between two references
MainPause ==
  /\ pc = "pause"
  /\ pauses' = pauses + 1
  /\ idx' = idx + 1
  /\ pc' = "loop"
  /\ UNCHANGED <<api_key, list_txt, urls, successes, failures, output_dir,
                 files, exit_status, processed, unit>>
  /\ UNCHANGED fetchVars

\* the final summary; main returns and the interpreter exits with status 0
MainSummary ==
  /\ pc = "summary"
  /\ pc' = "done"
  /\ exit_status' = 0
  /\ UNCHANGED <<api_key, list_txt, urls, idx, successes, failures, output_dir,
                 files, pauses, processed, unit>>
  /\ UNCHANGED fetchVars

Next ==
  \/ MainPreflight \/ MainMakeOutputDir \/ MainFetch \/ MainTally
  \/ MainUncaught \/ MainPause \/ MainSummary
  \/ FetchCall \/ Get429 \/ Get200 \/ GetOther \/ GetTransport \/ Sleep

Spec == Init /\ [][Next]_vars

----------------------------------------------------------------------------
(* Properties of one call of fetch_transcript *)

Last(l) == l[Len(l)]

\* every GET of the call so far was answered with `kind`
AllGetsAre(kind) ==
  \A i \in 1..Len(log) : log[i] \in LogGets => log[i] = kind

\* C1: for every max_retries >= 0 and every sequence of per-attempt results,
\* a call of fetch_transcript never issues more than max_retries GET requests,
\* and it terminates (by returning or by raising).
C1_AtMostMaxRetriesRequests ==
  [](Requests(log) <= max_retries) /\ <>(fpc \in Terminal)

\* a call that used its whole budget on a mix of 429s and transport failures
C1_Witness ==
  /\ fpc \in Terminal
  /\ max_retries >= 2
  /\ Requests(log) = max_retries
  /\ \E i, j \in 1..Len(log) : log[i] = "429" /\ log[j] = "exc"

\* C2: when every attempt of a call is answered with 429, the call issues
\* exactly max_retries requests and then returns None, whatever Retry-After
\* values the server sends.
C2_All429ExhaustsBudget ==
  (fpc \in Terminal /\ AllGetsAre("429"))
    => (fpc = "returned" /\ result.t = "null" /\ Requests(log) = max_retries)

\* C3: an attempt answered with 200 ends the call: it is the last entry of
\* the call's history (no sleep, no request after it) and the call has
\* returned the parsed body.
C3_First200EndsCall ==
  \A i \in 1..Len(log) :
    log[i] = "200" =>
      /\ i = Len(log)
      /\ fpc = "returned"
      /\ resp.body.t # "invalid"
      /\ result = resp.body

\* C4: an attempt answered with a status other than 200 and 429 is the last
\* event of the call (no sleep, no request after it) and the call has
\* returned None, whatever remains of the budget.
C4_OtherStatusFailsAtOnce ==
  /\ \A i \in 1..Len(log) :
       log[i] = "other" =>
         i = Len(log) /\ fpc = "returned" /\ result.t = "null"
  /\ resp.status \notin {0, -1, 200, 429} =>
       Len(log) >= 1 /\ Last(log) = "other"

\* an error status arrives on a retry while attempts remain
C4_Witness ==
  /\ Len(log) >= 2
  /\ Last(log) = "other"
  /\ fpc = "returned"
  /\ attempt + 1 < max_retries

\* C5: a transport failure at 0-based attempt a is followed by a sleep of
\* exactly 2^a and then by a retry while a < max_retries - 1, and ends the
\* call with None on the last attempt; a call whose attempts all fail at
\* transport level makes exactly max_retries requests and returns None.
C5_TransportBackoff ==
  /\ (Len(log) >= 1 /\ Last(log) = "exc") =>
       /\ attempt = Requests(log) - 1
       /\ IF attempt < max_retries - 1
          THEN fpc = "sleep" /\ wait_time = Pow2(attempt)
          ELSE fpc = "returned" /\ result.t = "null"
  /\ \A i \in 1..(Len(log) - 1) :
       log[i] = "exc" =>
         /\ log[i + 1] = "sleep"
         /\ i + 1 = Len(log) => fpc = "get"
         /\ i + 1 < Len(log) => log[i + 2] \in LogGets
  /\ (fpc \in Terminal /\ AllGetsAre("exc")) =>
       fpc = "returned" /\ result.t = "null" /\ Requests(log) = max_retries

\* every attempt of a budget of two or more failed at transport level
C5_Witness ==
  /\ fpc = "returned"
  /\ max_retries >= 2
  /\ AllGetsAre("exc")
  /\ Requests(log) = max_retries
  /\ Sleeps(log) = max_retries - 1

\* C6: after a 429 at 0-based attempt a the client sleeps, before any
\* further request, for the Retry-After value when the header is present and
\* for 2^a otherwise.
C6_RateLimitSleep ==
  /\ (Len(log) >= 1 /\ Last(log) = "429") =>
       /\ fpc = "sleep"
       /\ attempt = Requests(log) - 1
       /\ wait_time = IF resp.retry_after.t = "absent"
                      THEN Pow2(attempt)
                      ELSE PyInt(resp.retry_after.s).v
  /\ \A i \in 1..(Len(log) - 1) : log[i] = "429" => log[i + 1] = "sleep"

----------------------------------------------------------------------------
(* Properties of a run of main *)

\* the Video ID line of a document in the output directory
FileVideoId(content) ==
  LET from == CHOOSE k \in 1..Len(content) : content[k] = "\n**Video ID:** "
      to   == CHOOSE k \in 1..Len(content) : content[k] = "\n**Idioma detectado:** "
  IN  SubSeq(content, from + 1, to - 1)

\* the files of the output directory that hold a document
Documents == {p \in DOMAIN files : files[p] # <<>>}

\* C7: for a reference whose identifier extraction fails no network request
\* is issued and no file is written.
C7_NoIdNoRequestNoFile ==
  /\ (pc = "fetching" /\ extract_video_id(video_url).t = "null") =>
       Requests(log) = 0
  /\ \A p \in Documents : FileVideoId(files[p]) # Unknown

\* C8: once the loop over the references has started, nothing that happens
\* while a reference is processed ends the run: the process ends only after
\* the final summary, with status zero and every reference tallied.
C8_BadReferenceNeverAborts ==
  idx >= 1 =>
    /\ pc # "crashed"
    /\ exit_status # -1 =>
         /\ exit_status = 0
         /\ pc = "done"
         /\ idx = Len(urls)
         /\ successes + failures = Len(urls)

\* list.txt holds no line that survives stripping and is not a comment
NoUsableReference(lines) ==
  \A i \in 1..Len(lines) :
    LET url == Strip(lines[i]) IN url = <<>> \/ Head(url) = "#"

FatalPreflight ==
  \/ api_key = ""
  \/ list_txt.state \in {"missing", "unreadable"}
  \/ NoUsableReference(list_txt.lines)

\* C9: when the credential is absent, or list.txt is missing, unreadable or
\* holds no usable reference, the run ends in sys.exit(1) and at no time has
\* it issued a request, created the output directory or written a file.
C9_FatalPreflightAborts ==
  FatalPreflight =>
    /\ pc \in {"start", "aborted"}
    /\ pc = "aborted" <=> exit_status = 1
    /\ pc = "start" <=> exit_status = -1
    /\ fpc = "idle" /\ log = <<>>
    /\ ~output_dir
    /\ DOMAIN files = {}

\* a run with a credential aborted on a list.txt of blank and comment lines
C9_Witness ==
  /\ pc = "aborted"
  /\ api_key # ""
  /\ list_txt.state = "ok"
  /\ Len(list_txt.lines) = MaxLines

\* C10: at the end of a run the output directory holds as many documents as
\* references were counted as successes.
C10_OneFilePerSuccess ==
  pc = "done" => Cardinality(Documents) = successes

\* a line of list.txt that is a reference: not blank and not a comment
IsReferenceLine(line) ==
  LET url == Strip(line) IN url # <<>> /\ Head(url) # "#"

\* the references of list.txt, in file order
ExpectedReferences ==
  LET kept == SelectSeq(list_txt.lines, IsReferenceLine)
  IN  [k \in 1..Len(kept) |-> Strip(kept[k])]

\* C11: the references handed to fetch_transcript are the non-blank,
\* non-comment lines in file order, each once: at the end of a run that
\* entered the loop all of them have been processed; requests are issued
\* only for the current reference, after every earlier one has been tallied,
\* and never for an ignored line.
C11_ReferencesInOrderOnce ==
  /\ Len(processed) <= Len(ExpectedReferences)
  /\ \A k \in 1..Len(processed) : processed[k].url = ExpectedReferences[k]
  /\ (exit_status # -1 /\ idx >= 1) => Len(processed) = Len(ExpectedReferences)
  /\ Requests(log) > 0 =>
       /\ pc = "fetching"
       /\ Len(processed) = idx
       /\ video_url = ExpectedReferences[idx]
       /\ \A k \in 1..(idx - 1) : processed[k].counted # "pending"

----------------------------------------------------------------------------
(* The pure methods, each called once on its own *)

\* the variables of fetch_transcript and main while a pure method runs alone
InitIdle ==
  /\ FetchIdle
  /\ pc = "caller"
  /\ api_key = "key"
  /\ list_txt = [state |-> "ok", lines |-> <<>>]
  /\ urls = <<>>
  /\ idx = 0
  /\ successes = 0
  /\ failures = 0
  /\ output_dir = FALSE
  /\ files = <<>>
  /\ pauses = 0
  /\ exit_status = -1
  /\ processed = <<>>

\* a call of method fn with argument arg that has not run yet
Call(fn, arg) == [fn |-> fn, arg |-> arg, ret |-> JAbsent, done |-> FALSE]

\* the call of unit runs and returns ret
Returns(ret) ==
  /\ ~unit.done
  /\ unit' = [unit EXCEPT !.ret = ret, !.done = TRUE]
  /\ UNCHANGED fetchVars
  /\ UNCHANGED <<pc, api_key, list_txt, urls, idx, successes, failures,
                 output_dir, files, pauses, exit_status, processed>>

Returned(fn) == unit.fn = fn /\ unit.done

VideoId1 ==
  <<"d", "Q", "w", "4", "w", "9", "W", "g", "X", "c", "Q">>

VideoId2 ==
  <<"-", "_", "3", "4", "5", "6", "7", "8", "9", "a", "b">>

VideoIds == {VideoId1, VideoId2}

Https ==
  <<"h", "t", "t", "p", "s", ":", "/", "/">>

HostWww ==
  <<"w", "w", "w", ".", "y", "o", "u", "t", "u", "b", "e", ".", "c", "o",
  "m">>

HostBare ==
  <<"y", "o", "u", "t", "u", "b", "e", ".", "c", "o", "m">>

HostMobile ==
  <<"m", ".", "y", "o", "u", "t", "u", "b", "e", ".", "c", "o", "m">>

HostMusic ==
  <<"m", "u", "s", "i", "c", ".", "y", "o", "u", "t", "u", "b", "e", ".",
  "c", "o", "m">>

HostNoCookieWww ==
  <<"w", "w", "w", ".", "y", "o", "u", "t", "u", "b", "e", "-", "n", "o",
  "c", "o", "o", "k", "i", "e", ".", "c", "o", "m">>

HostNoCookie ==
  <<"y", "o", "u", "t", "u", "b", "e", "-", "n", "o", "c", "o", "o", "k",
  "i", "e", ".", "c", "o", "m">>

HostShort ==
  <<"y", "o", "u", "t", "u", ".", "b", "e">>

\* host names that serve watch and embed pages
Hosts == {HostWww, HostBare, HostMobile, HostMusic, HostNoCookieWww, HostNoCookie}

\* https://<host>/watch?v=<id>
WatchUrl(host, id) ==
  Https \o host \o <<"/", "w", "a", "t", "c", "h", "?", "v", "=">> \o id

\* https://<host>/watch?feature=share&v=<id>&t=42
WatchUrlWithParams(host, id) ==
  Https \o host \o <<"/", "w", "a", "t", "c", "h", "?", "f", "e", "a", "t", "u", "r", "e", "=", "s", "h", "a", "r", "e", "&", "v", "=">>
    \o id \o <<"&", "t", "=", "4", "2">>

\* https://<host>/embed/<id>
EmbedUrl(host, id) ==
  Https \o host \o <<"/", "e", "m", "b", "e", "d", "/">> \o id

\* https://<host>/shorts/<id>
ShortsUrl(host, id) ==
  Https \o host \o <<"/", "s", "h", "o", "r", "t", "s", "/">> \o id

\* https://youtu.be/<id>
ShortLink(id) == Https \o HostShort \o <<"/">> \o id

\* the supported URL shapes, each with the identifier it embeds
WrappedIds ==
  {[url |-> WatchUrl(h, i), id |-> i] : h \in Hosts, i \in VideoIds}
    \cup {[url |-> WatchUrlWithParams(h, i), id |-> i] : h \in Hosts, i \in VideoIds}
    \cup {[url |-> EmbedUrl(h, i), id |-> i] : h \in Hosts, i \in VideoIds}
    \cup {[url |-> ShortsUrl(h, i), id |-> i] : h \in Hosts, i \in VideoIds}
    \cup {[url |-> ShortLink(i), id |-> i] : i \in VideoIds}

\* strings that are not one of the URL shapes: bare identifiers, identifiers
\* with surrounding whitespace, near misses, text without an identifier
OtherStrings ==
  VideoIds
    \cup {i \o <<"\n">> : i \in VideoIds}
    \cup {<<" ">> \o i : i \in VideoIds}
    \cup {i \o <<"x">> : i \in VideoIds}
    \cup {SubSeq(i, 1, IdLen - 1) : i \in VideoIds}
    \cup {SubSeq(i, 1, IdLen - 1) \o <<"!">> : i \in VideoIds}
    \cup {<<>>, NoIdRef, Https \o HostWww \o <<"/">>}

ExtractInputs == {w.url : w \in WrappedIds} \cup OtherStrings

CallExtract ==
  /\ unit.fn = "extract_video_id"
  /\ Returns(extract_video_id(unit.arg))

InitExtract ==
  /\ InitIdle
  /\ unit \in {Call("extract_video_id", url) : url \in ExtractInputs}

\* one call extract_video_id(url), any url
SpecExtract == InitExtract /\ [][CallExtract]_vars

\* exactly 11 characters of [A-Za-z0-9_-]
IsCanonicalId(s) ==
  Len(s) = IdLen /\ \A k \in 1..Len(s) : s[k] \in IdAlphabet

\* C12: extract_video_id returns not-found or a CanonicalID (exactly 11
\* characters of the alphabet); an input that is a CanonicalID is returned
\* unchanged, and the extractor returns its own result unchanged.
C12_ExtractReturnsCanonicalId ==
  Returned("extract_video_id") =>
    /\ unit.ret.t = "null" \/ (unit.ret.t = "str" /\ IsCanonicalId(unit.ret.s))
    /\ IsCanonicalId(unit.arg) => (unit.ret.t = "str" /\ unit.ret.s = unit.arg)
    /\ unit.ret.t = "str" => extract_video_id(unit.ret.s) = unit.ret

\* C13: for every supported URL shape on every host and every identifier,
\* extract_video_id of the URL that embeds the identifier returns exactly it.
C13_ExtractInvertsWrappers ==
  \A w \in WrappedIds :
    (Returned("extract_video_id") /\ unit.arg = w.url) =>
      (unit.ret.t = "str" /\ unit.ret.s = w.id)

----------------------------------------------------------------------------
(* _clean_filename called on its own *)

\* 201 characters: cut at 200 the title ends in a space
LongTitle == [k \in 1..(MaxFilenameLen - 1) |-> "a"] \o <<" ", "b">>

\* the suffix in the middle of a title
MidSuffixTitle == <<"A">> \o YouTubeSuffix \o <<" ", "B">>

\* removing the suffix from this title leaves a title that ends in the suffix
NestedSuffixTitle == <<"a", " ", "-", " ", "Y", "o", "u">> \o YouTubeSuffix \o <<"T", "u", "b", "e">>

TitleLeads == {<<>>, <<" ">>, <<"?", " ">>}

TitleCores ==
  {<<>>, <<"a">>, TestTitle, <<"a", "/", "b">>, LongTitle, MidSuffixTitle,
   NestedSuffixTitle}

TitleTrails ==
  {<<>>, YouTubeSuffix, YouTubeSuffix \o YouTubeSuffix, <<" ">>, <<":">>}

Titles == {l \o c \o e : l \in TitleLeads, c \in TitleCores, e \in TitleTrails}

CallClean ==
  /\ unit.fn = "_clean_filename"
  /\ Returns(_clean_filename(unit.arg))

InitClean ==
  /\ InitIdle
  /\ unit \in {Call("_clean_filename", title) : title \in Titles}

\* one call _clean_filename(title), any title
SpecClean == InitClean /\ [][CallClean]_vars

Trimmed(s) == s = <<>> \/ (Head(s) \notin Whitespace /\ Last(s) \notin Whitespace)

NoReserved(s) == \A k \in 1..Len(s) : s[k] \notin ReservedChars

EndsWith(s, e) == Len(s) >= Len(e) /\ StartsAt(s, Len(s) - Len(e) + 1, e)

\* C14: the result of _clean_filename is at most 200 characters long, has
\* none of the reserved characters and no leading or trailing whitespace.
C14_CleanFilenameBounded ==
  Returned("_clean_filename") =>
    /\ Len(unit.ret) <= MaxFilenameLen
    /\ NoReserved(unit.ret)
    /\ Trimmed(unit.ret)

\* a title longer than the cap, with a reserved character, has been
\* sanitized: it was cut at the cap and the space at the cut was stripped
C14_Witness ==
  /\ Returned("_clean_filename")
  /\ Len(unit.arg) > MaxFilenameLen
  /\ ~NoReserved(unit.arg)
  /\ Len(unit.ret) = MaxFilenameLen - 1

\* no trailing suffix, no reserved character, at most 200 characters, trimmed
IsCleanTitle(s) ==
  /\ ~EndsWith(s, YouTubeSuffix)
  /\ NoReserved(s)
  /\ Len(s) <= MaxFilenameLen
  /\ Trimmed(s)

\* C15: the suffix ' - YouTube' is removed only at the end of the title and
\* only once; a title that is already clean is returned unchanged, so the
\* sanitizer changes nothing on its own results.
C15_OneTrailingSuffix ==
  Returned("_clean_filename") =>
    /\ IsCleanTitle(unit.arg) => unit.ret = unit.arg
    /\ _clean_filename(unit.ret) = unit.ret
    /\ EndsWith(unit.arg, YouTubeSuffix) =>
         LET stem == SubSeq(unit.arg, 1, Len(unit.arg) - Len(YouTubeSuffix))
         IN  (NoReserved(stem) /\ Len(stem) <= MaxFilenameLen /\ Trimmed(stem))
               => unit.ret = stem

----------------------------------------------------------------------------
(* format_transcript_text called on its own *)

\* a segment without the key "start"
NoStartSegment == JSeg(JStr(<<"A", "b">>), JAbsent)

\* {"text": "Cd", "start": 12.34}
LateSegment == JSeg(JStr(<<"C", "d">>), JNum(1234))

\* a segment whose start is text
TextStartSegment == JSeg(JStr(<<"E", "f">>), JStr(<<"0", ".", "5">>))

Segments == {Hello, World, NoStartSegment, LateSegment, TextStartSegment}

\* the value under "transcript": a list of segments, text, null or no key
Transcripts ==
  {JList(l) : l \in SeqsUpTo(Segments, MaxSegments)}
    \cup {JStr(<<"H", "i">>), JNull, JAbsent}

CallRender ==
  /\ unit.fn = "format_transcript_text"
  /\ Returns(format_transcript_text(unit.arg))

InitRender ==
  /\ InitIdle
  /\ unit \in {Call("format_transcript_text", JDict(tr, JAbsent, JAbsent)) :
                 tr \in Transcripts}

\* one call format_transcript_text(transcript_data), any transcript
SpecRender == InitRender /\ [][CallRender]_vars

\* a segment with text and with a numeric start, a null start or no start
PlainSegment(segment) ==
  /\ segment.t = "seg"
  /\ segment.text.t = "str"
  /\ segment.start.t \in {"num", "null", "absent"}

\* the line of a segment: the offset in brackets when it carries one
OffsetLine(segment) ==
  IF segment.start.t = "num"
  THEN <<"[">> \o Format2f(segment.start.h) \o <<"s", "]", " ">> \o segment.text.s
  ELSE segment.text.s

\* C16: each segment is one line of the rendered body, in the order of the
\* response: with a start offset the line is "[<offset>s] <text>", with the
\* start null or absent it is the bare text.
C16_SegmentLines ==
  LET tr == unit.arg.transcript
  IN  ( /\ Returned("format_transcript_text")
        /\ tr.t = "list"
        /\ \A k \in 1..Len(tr.l) : PlainSegment(tr.l[k]) ) =>
        /\ unit.ret.ok
        /\ unit.ret.text = JoinLines([k \in 1..Len(tr.l) |-> OffsetLine(tr.l[k])])

----------------------------------------------------------------------------
(* save_transcript called on its own *)

\* references as main hands them over: stripped lines of list.txt
SaveRefs ==
  {ShortUrl, NoIdRef, WatchUrl(HostWww, VideoId2), EmbedUrl(HostNoCookie, VideoId1)}

SaveTitles ==
  { TestTitle, <<>>, <<"?">>, <<" ">>, Unknown, <<" ">> \o Unknown,
    Unknown \o <<"?">>, YouTubeSuffix, Unknown \o YouTubeSuffix,
    <<"a", "/", "b">>, <<"u", "n">>, LongTitle }

\* the value under "metadata"
SaveMetadata ==
  {JMeta(JStr(title), JAbsent, JAbsent) : title \in SaveTitles}
    \cup {JMeta(JAbsent, JAbsent, JAbsent), JMeta(JNull, JAbsent, JAbsent),
          JAbsent, JNull}

SaveCalls ==
  {[video_url |-> url, transcript_data |-> JDict(JList(<<Hello>>), JAbsent, meta)] :
     url \in SaveRefs, meta \in SaveMetadata}

\* the whole method: the document is built, the directory made, the file
\* opened and written; the path is returned, or None when the try block fails
CallSave ==
  /\ unit.fn = "save_transcript"
  /\ ~unit.done
  /\ LET doc == save_transcript(unit.arg.video_url, unit.arg.transcript_data)
     IN  IF doc.raised
         THEN /\ unit' = [unit EXCEPT !.ret = [outcome |-> "raised", path |-> None],
                                      !.done = TRUE]
              /\ UNCHANGED <<files, output_dir>>
         ELSE \E outcome \in WriteOutcomes :
                /\ files' = WriteFile(doc, outcome)
                /\ output_dir' \in {TRUE} \cup (IF outcome = "open failed"
                                               THEN {FALSE} ELSE {})
                /\ unit' = [unit EXCEPT
                              !.ret = [outcome |-> outcome,
                                       path |-> IF outcome = "written"
                                                THEN JStr(filepath(doc.filename))
                                                ELSE None],
                              !.done = TRUE]
  /\ UNCHANGED fetchVars
  /\ UNCHANGED <<pc, api_key, list_txt, urls, idx, successes, failures, pauses,
                 exit_status, processed>>

InitSave ==
  /\ InitIdle
  /\ unit \in {Call("save_transcript", c) : c \in SaveCalls}

\* one call save_transcript(video_url, transcript_data, output_dir)
SpecSave == InitSave /\ [][CallSave]_vars

\* save_transcript has created a file
SaveCreatedFile ==
  Returned("save_transcript") /\ unit.ret.outcome \in {"written", "write failed"}

\* the identifier extracted from the reference, or the placeholder
SavedId ==
  LET extracted == extract_video_id(unit.arg.video_url)
  IN  IF extracted.t = "str" THEN extracted.s ELSE Unknown

\* the sanitized title of the call that created a file
SanitizedTitle ==
  LET metadata == unit.arg.transcript_data.metadata
  IN  _clean_filename(IF metadata.t = "absent" \/ metadata.title.t = "absent"
                      THEN <<"T", "r", "a", "n", "s", "c", "r", "i", "p", "t", " ">> \o SavedId
                      ELSE metadata.title.s)

DocumentExtension == <<".", "m", "d">>

\* C17 as stated: the stem of the written file is never empty; it is
\* transcript_<id> when the sanitized title is empty and the sanitized title
\* otherwise, and the path is the stem plus ".md".
C17_StemFallbackOnlyWhenEmpty ==
  SaveCreatedFile =>
    LET stem == IF SanitizedTitle = <<>>
                THEN TranscriptPrefix \o SavedId ELSE SanitizedTitle
    IN  stem # <<>> /\ DOMAIN files = {stem \o DocumentExtension}

\* C17 amended: the stem of the written file is never empty; it is
\* transcript_<id> when the sanitized title is empty or is exactly "unknown",
\* and the sanitized title otherwise; <id> is the identifier extracted from
\* the reference or "unknown"; the path is the stem plus ".md".
C17_StemFallback ==
  SaveCreatedFile =>
    LET stem == IF SanitizedTitle = <<>> \/ SanitizedTitle = Unknown
                THEN TranscriptPrefix \o SavedId ELSE SanitizedTitle
    IN  stem # <<>> /\ DOMAIN files = {stem \o DocumentExtension}

\* a document whose title sanitizes to "unknown" has been written under the
\* fallback stem of an extracted identifier
C17_Witness ==
  /\ Returned("save_transcript")
  /\ unit.ret.outcome = "written"
  /\ SanitizedTitle = Unknown
  /\ SavedId # Unknown
  /\ DOMAIN files = {TranscriptPrefix \o SavedId \o DocumentExtension}

----------------------------------------------------------------------------
(* The tally and the pauses of a run of main *)

\* the processed references counted as `counted`
CountedAs(counted) ==
  Cardinality({k \in 1..Len(processed) : processed[k].counted = counted})

\* C18: every reference is tallied exactly once: after the k-th reference
\* successes + failures = k, and at the end of the run successes + failures
\* is the number of references; a reference is a success exactly when its
\* retrieval ended with a 200 and its document was written, a failure in
\* every other case.
C18_EveryReferenceTalliedOnce ==
  /\ successes = CountedAs("success")
  /\ failures = CountedAs("failure")
  /\ \A k \in 1..Len(processed) :
       /\ processed[k].counted = "success" =>
            (processed[k].retrieved /\ processed[k].written)
       /\ processed[k].counted = "failure" =>
            ~(processed[k].retrieved /\ processed[k].written)
  /\ pc \in {"pause", "summary", "done"} => successes + failures = idx
  /\ pc \in {"loop", "fetching"} => successes + failures = idx - 1
  /\ (exit_status # -1 /\ idx >= 1) => successes + failures = Len(urls)

\* C19: exactly one pause lies between the processing of two successive
\* references, whatever the outcome of the earlier one, and none follows the
\* last: when the k-th reference is being processed k - 1 pauses have been
\* made, and a run through n references ends with n - 1 pauses.
C19_OnePauseBetweenReferences ==
  /\ idx >= 1 => pauses = idx - 1
  /\ pc = "pause" => (idx < Len(urls) /\ processed[idx].counted # "pending")
  /\ pc = "done" => pauses = Len(urls) - 1

\* a run over two references has ended after one pause; the first reference
\* was retrieved but its write failed, the second was a success
C19_Witness ==
  /\ pc = "done"
  /\ Len(urls) = 2
  /\ pauses = 1
  /\ processed[1].retrieved /\ ~processed[1].written
  /\ processed[2].counted = "success"

----------------------------------------------------------------------------
(* The sleeps of one call of fetch_transcript *)

\* C20: fetch_transcript never sleeps after the last request it issues:
\* every sleep of a call, after a transport failure or after a 429, is
\* followed by a further request of the same call.
C20_NoSleepAfterLastRequest ==
  /\ (fpc = "sleep" /\ wait_time >= 0) => attempt + 1 < max_retries
  /\ \A i \in 1..Len(log) :
       log[i] = "sleep" =>
         /\ i < Len(log) => log[i + 1] \in LogGets
         /\ i = Len(log) => fpc = "get"
====
